---------------------------- MODULE Spec2Model ----------------------------
(***************************************************************************)
(* Model of zsh-guide-epub: html2xhtml.py (the XHTML normalizer) and       *)
(* make_epub.py (chapter extraction, archive reader, NCX builder and the   *)
(* EPUB archive writer).                                                   *)
(*                                                                         *)
(* Strings that the code inspects character by character (file names) are  *)
(* sequences of one-character strings.  An HTML text is a record of the     *)
(* markup it holds (Markup); BeautifulSoup(text, "lxml") is Parse and       *)
(* str(soup) is Str, neither of which is the identity: the parser builds    *)
(* a head or a body only when the text holds one, and the serializer drops  *)
(* the empty strings that replaced old doctypes.                            *)
(***************************************************************************)
EXTENDS Integers, Sequences, FiniteSets, TLC

VARIABLES
    pc,             \* the place of the run
    archive,        \* main: the downloaded tar archive, a sequence of members
    archive2,       \* the members of archive in another order
    html,           \* the text given to html2xhtml and to the extractors
    version,        \* the version given to html2xhtml
    filename,       \* the file name given to chapter_from_html
    nav_chapters,   \* the chapters given to create_ncx_nav_map
    result,         \* the outcome of the call (in main: of book_from_tar_archive)
    result2,        \* the outcome of the second call (in main: of create_ncx)
    epub_contents,  \* main: the (filename, contents) list
    epub            \* main: the entries written to zsh-guide.epub

vars == <<pc, archive, archive2, html, version, filename, nav_chapters,
          result, result2, epub_contents, epub>>

\* The variables that are inputs of the calls.
inputs == <<archive, archive2, html, version, filename, nav_chapters>>

(***************************************************************************)
(* Bounds of the model.                                                    *)
(***************************************************************************)
MaxDoctypes == 2
MaxMetas == 2
MaxBlocks == 2
MaxMembers == 3
MaxChapters == 2
MaxName == 3

None == "None"

SeqsUpTo(S, n) == UNION {[1..k -> S] : k \in 0..n}

Range(s) == {s[i] : i \in 1..Len(s)}

(***************************************************************************)
(* Outcomes of a call: a returned value or a raised exception.             *)
(***************************************************************************)
Return(v) == [ok |-> TRUE, val |-> v, err |-> None]
Raise(e) == [ok |-> FALSE, val |-> None, err |-> e]
NotRun == [ok |-> FALSE, val |-> None, err |-> "NotRun"]

\* html2xhtml.py DOCTYPES: the versions html2xhtml supports.
DOCTYPES == {"1.0", "1.1"}

\* The canonical doctype of a version (public identifier).
DoctypeFor(v) ==
    IF v = "1.0" THEN "-//W3C//DTD XHTML 1.0 Strict//EN"
    ELSE "-//W3C//DTD XHTML 1.1//EN"

HTML4 == "-//W3C//DTD HTML 4.01//EN"
XHTML_NS == "http://www.w3.org/1999/xhtml"
TOC_FILENAME == "zshguide.html"

(***************************************************************************)
(* Parsing and serializing.                                                *)
(*   Markup: doctypes (the doctype declarations of the text, in order),    *)
(*   root (the text holds element content), xmlns (the root's xmlns        *)
(*   attribute or None), hasHead/metas, hasBody/body (blocks in document    *)
(*   order), wrap (wrapper divs around the body's content).                 *)
(*   Soup: the same with contents, the top-level nodes of the tree.        *)
(***************************************************************************)
DoctypeNode(n) == [type |-> "Doctype", name |-> n]
StringNode == [type |-> "NavigableString", name |-> ""]
HtmlNode == [type |-> "Tag", name |-> "html"]

Parse(m) ==
    [contents |-> [i \in 1..Len(m.doctypes) |-> DoctypeNode(m.doctypes[i])]
                  \o (IF m.root THEN <<HtmlNode>> ELSE <<>>),
     xmlns |-> m.xmlns,
     hasHead |-> m.hasHead, metas |-> m.metas,
     hasBody |-> m.hasBody, body |-> m.body, wrap |-> m.wrap]

HasHtml(soup) == \E i \in 1..Len(soup.contents) : soup.contents[i] = HtmlNode

Doctypes(contents) ==
    SelectSeq(contents, LAMBDA n : n.type = "Doctype")

Str(soup) ==
    [doctypes |-> [i \in 1..Len(Doctypes(soup.contents)) |->
                      Doctypes(soup.contents)[i].name],
     root |-> HasHtml(soup),
     xmlns |-> soup.xmlns,
     hasHead |-> soup.hasHead, metas |-> soup.metas,
     hasBody |-> soup.hasBody, body |-> soup.body, wrap |-> soup.wrap]

(***************************************************************************)
(* html2xhtml.py                                                           *)
(***************************************************************************)
\* set_doctype, lines 33-36: every Doctype at the top level is replaced by
\* an empty string, then the new doctype is inserted first.
set_doctype(soup, v) ==
    [soup EXCEPT !.contents =
        <<DoctypeNode(DoctypeFor(v))>> \o
        [i \in 1..Len(@) |-> IF @[i].type = "Doctype" THEN StringNode ELSE @[i]]]

set_xml_namespace(soup) == [soup EXCEPT !.xmlns = XHTML_NS]

\* A meta element is [charset, http_equiv]: its charset attribute and its
\* http-equiv attribute, None when absent.
CanonicalMeta == [charset |-> None, http_equiv |-> "Content-Type"]

element_is_meta_charset(meta) ==
    \/ meta.charset # None
    \/ meta.http_equiv = "Content-Type"

set_charset_keep_old(soup) ==
    [soup EXCEPT !.metas = Append(@, CanonicalMeta)]

set_charset(soup) ==
    [soup EXCEPT !.metas =
        Append(SelectSeq(@, LAMBDA m : ~element_is_meta_charset(m)),
               CanonicalMeta)]

\* The content of a paragraph block is "none" (no children), "space"
\* (whitespace text only), "text" or "tag" (an element child).
is_empty(block) == block.content \in {"none", "space"}

remove_empty_paragraphs(soup) ==
    [soup EXCEPT !.body =
        SelectSeq(@, LAMBDA b : ~(b.k = "p" /\ is_empty(b)))]

\* A block of the body is [k, content, as]: its element kind ("p", "a",
\* "h1", "h2", "li"), its text content and the anchors it carries, in
\* document order: a block "a" is one anchor outside any list item, a block
\* "h2" carries the anchor that its previous sibling holds (none when the
\* previous sibling holds no anchor), a block "li" holds the anchors of one
\* list item.  An anchor is [name, id, href, parent]: its attributes (None
\* when absent) and the name of its parent element.
convert_anchor_keep_name(a) ==
    IF a.name # None THEN [a EXCEPT !.id = a.name] ELSE a

convert_anchor(a) ==
    IF a.name # None THEN [a EXCEPT !.id = a.name, !.name = None] ELSE a

MapAnchors(body, F(_)) ==
    [i \in 1..Len(body) |->
        [body[i] EXCEPT !.as = [j \in 1..Len(@) |-> F(@[j])]]]

convert_name_to_id(soup) ==
    [soup EXCEPT !.body = MapAnchors(@, convert_anchor)]

wrap_body(soup) == [soup EXCEPT !.wrap = @ + 1]

html2xhtml(text, v) ==
    LET soup0 == Parse(text) IN
    IF v \notin DOCTYPES THEN Raise("ValueError")
    ELSE LET soup1 == set_doctype(soup0, v) IN
    IF ~HasHtml(soup1) THEN Raise("TypeError")
    ELSE LET soup2 == set_xml_namespace(soup1) IN
    IF ~soup2.hasHead THEN Raise("AttributeError")
    ELSE LET soup3 == remove_empty_paragraphs(set_charset(soup2))
             soup4 == IF v = "1.1" THEN convert_name_to_id(soup3) ELSE soup3
         IN
    IF ~soup4.hasBody THEN Raise("AttributeError")
    ELSE Return(Str(wrap_body(soup4)))

(***************************************************************************)
(* make_epub.py: file names and their patterns                             *)
(***************************************************************************)
Digits == {"0", "1", "2", "3", "4", "5", "6", "7", "8", "9"}

DigitValue(c) ==
    CASE c = "0" -> 0 [] c = "1" -> 1 [] c = "2" -> 2 [] c = "3" -> 3
      [] c = "4" -> 4 [] c = "5" -> 5 [] c = "6" -> 6 [] c = "7" -> 7
      [] c = "8" -> 8 [] c = "9" -> 9

\* int(s) of a digit run.
RECURSIVE int(_)
int(s) ==
    IF s = <<>> THEN 0
    ELSE 10 * int(SubSeq(s, 1, Len(s) - 1)) + DigitValue(s[Len(s)])

DOT_HTML == <<".", "h", "t", "m", "l">>
ZSHGUIDE == <<"z", "s", "h", "g", "u", "i", "d", "e">>
GUIDE == <<"g", "u", "i", "d", "e">>

\* s holds t at position i.
HoldsAt(s, i, t) ==
    /\ i >= 1
    /\ i + Len(t) - 1 <= Len(s)
    /\ SubSeq(s, i, i + Len(t) - 1) = t

\* The pattern's "$" after position j: the end of the string, or the place
\* before a newline that ends the string.
AtEnd(s, j) ==
    \/ j = Len(s)
    \/ j = Len(s) - 1 /\ s[Len(s)] = "\n"

\* os.path.basename: what follows the last "/".
basename(s) ==
    LET slashes == {i \in 1..Len(s) : s[i] = "/"} IN
    IF slashes = {} THEN s
    ELSE SubSeq(s, (CHOOSE i \in slashes : \A j \in slashes : j <= i) + 1, Len(s))

\* The matches [i, j] of "[0-9]+" followed by "\.html$" in s.
NumberMatches(s) ==
    {m \in (1..Len(s)) \X (1..Len(s)) :
        /\ m[1] <= m[2]
        /\ \A k \in m[1]..m[2] : s[k] \in Digits
        /\ HoldsAt(s, m[2] + 1, DOT_HTML)
        /\ AtEnd(s, m[2] + Len(DOT_HTML))}

\* re.search(r"([0-9]+)\.html$", s): group 1 of the leftmost match, as a
\* sequence holding it, or the empty sequence for no match.
SearchNumber(s) ==
    LET ms == NumberMatches(s) IN
    IF ms = {} THEN <<>>
    ELSE LET m == CHOOSE m \in ms : \A n \in ms : m[1] <= n[1]
         IN <<SubSeq(s, m[1], m[2])>>

\* re.search(r"zshguide([0-9]{2})\.html$", s) finds a match.
SearchChapterName(s) ==
    \E i \in 1..Len(s) :
        /\ HoldsAt(s, i, ZSHGUIDE)
        /\ i + Len(ZSHGUIDE) + 1 <= Len(s)
        /\ s[i + Len(ZSHGUIDE)] \in Digits
        /\ s[i + Len(ZSHGUIDE) + 1] \in Digits
        /\ HoldsAt(s, i + Len(ZSHGUIDE) + 2, DOT_HTML)
        /\ AtEnd(s, i + Len(ZSHGUIDE) + 1 + Len(DOT_HTML))

\* The pattern with any prefix in place of "zshguide".
SearchAnyPrefixName(s) ==
    \E i \in 1..Len(s) :
        /\ i + 1 <= Len(s)
        /\ s[i] \in Digits
        /\ s[i + 1] \in Digits
        /\ HoldsAt(s, i + 2, DOT_HTML)
        /\ AtEnd(s, i + 1 + Len(DOT_HTML))

(***************************************************************************)
(* make_epub.py: metadata and chapters                                     *)
(***************************************************************************)
Headings(body, k) == SelectSeq(body, LAMBDA b : b.k = k)

\* metadata_from_html: title of the first h1, author of the first h2.
metadata_from_html(text) ==
    LET soup == Parse(text) IN
    IF ~HasHtml(soup) \/ ~soup.hasBody THEN Raise("AttributeError")
    ELSE IF Headings(soup.body, "h1") = <<>> THEN Raise("IndexError")
    ELSE IF Headings(soup.body, "h2") = <<>> THEN Raise("AttributeError")
    ELSE Return([title |-> Headings(soup.body, "h1")[1].content,
                 author |-> Headings(soup.body, "h2")[1].content])

\* chapter_from_html with the number defaulting to 0 for a name that does
\* not match.
chapter_from_html_default(name, xhtml) ==
    LET soup == Parse(xhtml)
        h1s == Headings(soup.body, "h1")
        outname == basename(name)
        match == SearchNumber(outname)
    IN
    IF ~HasHtml(soup) \/ ~soup.hasBody THEN Raise("AttributeError")
    ELSE IF h1s = <<>> THEN Raise("IndexError")
    ELSE Return([title |-> h1s[Len(h1s)].content,
                 number |-> IF match = <<>> THEN 0 ELSE int(match[1]),
                 outname |-> outname,
                 xhtml |-> xhtml])

\* chapter_from_html: the title is read first (the last h1 of the body),
\* then the file name is matched.
chapter_from_html(name, xhtml) ==
    LET soup == Parse(xhtml)
        h1s == Headings(soup.body, "h1")
        outname == basename(name)
        match == SearchNumber(outname)
    IN
    IF ~HasHtml(soup) \/ ~soup.hasBody THEN Raise("AttributeError")
    ELSE IF h1s = <<>> THEN Raise("IndexError")
    ELSE IF match = <<>> THEN Raise("ValueError")
    ELSE Return([title |-> h1s[Len(h1s)].content,
                 number |-> int(match[1]),
                 outname |-> outname,
                 xhtml |-> xhtml])

\* soup.find_all("a", {"href": toc_filename}): the places <<i, j>> (block,
\* anchor) of the matching anchors, in document order.
RECURSIVE TocLinksFrom(_, _, _)
TocLinksFrom(body, i, toc_filename) ==
    IF i > Len(body) THEN <<>>
    ELSE LET js == SelectSeq([j \in 1..Len(body[i].as) |-> j],
                             LAMBDA j : body[i].as[j].href = toc_filename)
         IN [n \in 1..Len(js) |-> <<i, js[n]>>]
            \o TocLinksFrom(body, i + 1, toc_filename)

\* The loop of remove_html_toc_references, lines 79-83, from link n on, with
\* the list items decomposed so far.  decompose() clears the fields of the
\* list item and of everything in it, so the parent of a later link of the
\* same list item reads as None, and None.name raises AttributeError.
RECURSIVE RemoveLoop(_, _, _, _)
RemoveLoop(soup, links, n, decomposed) ==
    IF n > Len(links)
    THEN Return(Str([soup EXCEPT !.body =
            LET keep == SelectSeq([i \in 1..Len(soup.body) |-> i],
                                  LAMBDA i : i \notin decomposed)
            IN [x \in 1..Len(keep) |-> soup.body[keep[x]]]]))
    ELSE LET i == links[n][1]
             a == soup.body[i].as[links[n][2]]
         IN IF i \in decomposed THEN Raise("AttributeError")
            ELSE IF a.parent = "li"
                 THEN RemoveLoop(soup, links, n + 1, decomposed \cup {i})
                 ELSE Raise("ValueError")

remove_html_toc_references(text, toc_filename) ==
    LET soup == Parse(text) IN
    RemoveLoop(soup, TocLinksFrom(soup.body, 1, toc_filename), 1, {})

(***************************************************************************)
(* make_epub.py: the archive reader                                        *)
(***************************************************************************)
\* html_toc_filename as a file name.
TOC_NAME == ZSHGUIDE \o DOT_HTML

\* list.sort(key=number) is stable: each chapter goes after the chapters
\* already placed whose number is not greater.
InsertByNumber(sorted, c) ==
    LET k == Cardinality({i \in 1..Len(sorted) : sorted[i].number <= c.number})
    IN SubSeq(sorted, 1, k) \o <<c>> \o SubSeq(sorted, k + 1, Len(sorted))

RECURSIVE sort_by_number_rec(_)
sort_by_number_rec(chapters) ==
    IF chapters = <<>> THEN <<>>
    ELSE InsertByNumber(sort_by_number_rec(SubSeq(chapters, 1, Len(chapters) - 1)),
                        chapters[Len(chapters)])

\* The chapters left in archive order.
sort_skipped(chapters) == chapters

sort_by_number(chapters) == sort_by_number_rec(chapters)

\* The missing front matter replaced by an empty Metadata.
finish_scan_default(metadata, chapters) ==
    Return([metadata |-> IF metadata = <<>> THEN [title |-> "", author |-> ""]
                         ELSE metadata[1],
            chapters |-> sort_by_number(chapters)])

\* Lines 70-74: after the scan.
finish_scan(metadata, chapters) ==
    IF metadata = <<>> THEN Raise("ValueError")
    ELSE Return([metadata |-> metadata[1],
                 chapters |-> sort_by_number(chapters)])

\* Lines 59-68 for one member: normalize, strip the table-of-contents
\* references, extract the chapter.
chapter_of_member(tarinfo) ==
    LET x == html2xhtml(tarinfo.data, "1.1") IN
    IF ~x.ok THEN x
    ELSE LET r == remove_html_toc_references(x.val, TOC_FILENAME) IN
         IF ~r.ok THEN r
         ELSE chapter_from_html(tarinfo.name, r.val)

\* Any two-digit prefix accepted as a chapter name.
is_chapter_name_any_prefix(name) == SearchAnyPrefixName(name)

\* Line 59.
is_chapter_name(name) == SearchChapterName(name)

\* The loop of book_from_tar_archive from member i on.  metadata is the
\* empty sequence for None.
RECURSIVE ScanFrom(_, _, _, _)
ScanFrom(tar, i, metadata, chapters) ==
    IF i > Len(tar) THEN finish_scan(metadata, chapters)
    ELSE IF ~tar[i].isreg THEN ScanFrom(tar, i + 1, metadata, chapters)
    ELSE IF basename(tar[i].name) = TOC_NAME
         THEN LET m == metadata_from_html(tar[i].data) IN
              IF ~m.ok THEN m
              ELSE ScanFrom(tar, i + 1, <<m.val>>, chapters)
    ELSE IF is_chapter_name(tar[i].name)
         THEN LET c == chapter_of_member(tar[i]) IN
              IF ~c.ok THEN c
              ELSE ScanFrom(tar, i + 1, metadata, Append(chapters, c.val))
    ELSE ScanFrom(tar, i + 1, metadata, chapters)

book_from_tar_archive(tar) == ScanFrom(tar, 1, <<>>, <<>>)

(***************************************************************************)
(* make_epub.py: the EPUB documents                                        *)
(***************************************************************************)
create_ncx_nav_point(nav_number, title, src) ==
    [id |-> nav_number, playOrder |-> nav_number,
     label |-> title, src |-> src, children |-> <<>>]

\* nav_number never advanced.
next_nav_number_stuck(nav_number) == nav_number

\* Lines 147 and 158: nav_number += 1.
next_nav_number(nav_number) == nav_number + 1

\* The inner loop of create_ncx_nav_map, lines 150-158, from title j on.
\* title.previous_sibling.a["id"]: no anchor there raises TypeError, an
\* anchor without id raises KeyError.
RECURSIVE SubNavFrom(_, _, _, _, _)
SubNavFrom(titles, j, nav_number, outname, points) ==
    IF j > Len(titles) THEN Return([points |-> points, next |-> nav_number])
    ELSE IF titles[j].as = <<>> THEN Raise("TypeError")
    ELSE IF titles[j].as[1].id = None THEN Raise("KeyError")
    ELSE SubNavFrom(titles, j + 1, next_nav_number(nav_number), outname,
            Append(points,
                   create_ncx_nav_point(nav_number, titles[j].content,
                       [file |-> outname, fragment |-> titles[j].as[1].id])))

\* The outer loop, lines 139-158, from chapter i on.
RECURSIVE NavFrom(_, _, _, _)
NavFrom(chapters, i, nav_number, nav_map) ==
    IF i > Len(chapters) THEN Return(nav_map)
    ELSE LET chapter == chapters[i]
             nav_point == create_ncx_nav_point(nav_number, chapter.title,
                              [file |-> chapter.outname, fragment |-> None])
             titles == Headings(Parse(chapter.xhtml).body, "h2")
             sub == SubNavFrom(titles, 1, next_nav_number(nav_number),
                               chapter.outname, <<>>)
         IN IF ~sub.ok THEN sub
            ELSE NavFrom(chapters, i + 1, sub.val.next,
                    Append(nav_map,
                           [nav_point EXCEPT !.children = sub.val.points]))

create_ncx_nav_map(chapters) == NavFrom(chapters, 1, 1, <<>>)

OEBPS == <<"O", "E", "B", "P", "S", "/">>
MIMETYPE == <<"m", "i", "m", "e", "t", "y", "p", "e">>
TOC_NCX == <<"t", "o", "c", ".", "n", "c", "x">>
CONTENT_OPF == <<"c", "o", "n", "t", "e", "n", "t", ".", "o", "p", "f">>
CONTAINER_XML == <<"M", "E", "T", "A", "-", "I", "N", "F", "/",
                   "c", "o", "n", "t", "a", "i", "n", "e", "r", ".", "x", "m", "l">>

Entry(name, contents) == [filename |-> name, contents |-> contents]

create_ncx(book, uuid) ==
    LET nav == create_ncx_nav_map(book.chapters) IN
    IF ~nav.ok THEN nav
    ELSE Return(Entry(OEBPS \o TOC_NCX,
                      [kind |-> "ncx", uid |-> uuid,
                       docTitle |-> book.metadata.title,
                       navMap |-> nav.val]))

create_opf(book, uuid) ==
    Entry(OEBPS \o CONTENT_OPF,
          [kind |-> "opf", title |-> book.metadata.title,
           creator |-> book.metadata.author, identifier |-> uuid,
           spine |-> [i \in 1..Len(book.chapters) |-> book.chapters[i].outname]])

create_mime == Entry(MIMETYPE, [kind |-> "text", text |-> "application/epub+zip"])

create_container ==
    Entry(CONTAINER_XML, [kind |-> "container", fullpath |-> OEBPS \o CONTENT_OPF])

(***************************************************************************)
(* make_epub.py: main                                                      *)
(***************************************************************************)
GUIDE_URL == "http://zsh.sourceforge.net/Guide/"

\* Lines 267-272: the chapters, the NCX, the OPF, the mimetype file
\* inserted first, the container appended.
assemble(book, ncx) ==
    <<create_mime>>
    \o [i \in 1..Len(book.chapters) |->
        Entry(OEBPS \o book.chapters[i].outname,
              [kind |-> "xhtml", xhtml |-> book.chapters[i].xhtml])]
    \o <<ncx, create_opf(book, GUIDE_URL)>>
    \o <<create_container>>

\* Every entry deflated.
compression_type_always_deflated(name) == "ZIP_DEFLATED"

\* Lines 276-277.
compression_type(name) ==
    IF name # MIMETYPE THEN "ZIP_DEFLATED" ELSE "ZIP_STORED"

\* Line 266: book = book_from_tar_archive(archive); an exception leaves main.
ReadArchive ==
    /\ pc = "start"
    /\ result' = book_from_tar_archive(archive)
    /\ pc' = IF result'.ok THEN "book" ELSE "error"
    /\ UNCHANGED <<inputs, result2, epub_contents, epub>>

\* Lines 267-272.
BuildContents ==
    /\ pc = "book"
    /\ LET ncx == create_ncx(result.val, GUIDE_URL) IN
       /\ result2' = ncx
       /\ IF ncx.ok
          THEN /\ epub_contents' = assemble(result.val, ncx.val)
               /\ pc' = "contents"
          ELSE /\ epub_contents' = epub_contents
               /\ pc' = "error"
    /\ UNCHANGED <<inputs, result, epub>>

\* Line 274: the output archive is opened for writing.
OpenEpub ==
    /\ pc = "contents"
    /\ epub' = <<>>
    /\ pc' = "writing"
    /\ UNCHANGED <<inputs, result, result2, epub_contents>>

\* Lines 275-281: one turn of the loop.
WriteEntry ==
    /\ pc = "writing"
    /\ Len(epub) < Len(epub_contents)
    /\ LET e == epub_contents[Len(epub) + 1] IN
       epub' = Append(epub, [filename |-> e.filename, contents |-> e.contents,
                             compress_type |-> compression_type(e.filename)])
    /\ UNCHANGED <<pc, inputs, result, result2, epub_contents>>

\* The loop ends and main returns.
Finish ==
    /\ pc = "writing"
    /\ Len(epub) = Len(epub_contents)
    /\ pc' = "done"
    /\ UNCHANGED <<inputs, result, result2, epub_contents, epub>>

(***************************************************************************)
(* Inputs                                                                  *)
(***************************************************************************)
Anchor(name, id, href, parent) ==
    [name |-> name, id |-> id, href |-> href, parent |-> parent]
Block(k, content, as) == [k |-> k, content |-> content, as |-> as]

P(content) == Block("p", content, <<>>)
H1(text) == Block("h1", text, <<>>)
H2(text, as) == Block("h2", text, as)
A(name, id, href) == Block("a", "", <<Anchor(name, id, href, "div")>>)
LI(as) == Block("li", "", as)

TocLink(parent) == Anchor(None, None, TOC_FILENAME, parent)
OtherLink(parent) == Anchor(None, None, "zshguide02.html", parent)

Markup(doctypes, xmlns, head, body) ==
    [doctypes |-> doctypes,
     root |-> head # <<>> \/ body # <<>> \/ xmlns # None,
     xmlns |-> xmlns,
     hasHead |-> head # <<>>, metas |-> IF head = <<>> THEN <<>> ELSE head[1],
     hasBody |-> body # <<>>, body |-> IF body = <<>> THEN <<>> ELSE body[1],
     wrap |-> 0]

\* A head or a body is the empty sequence (no such element) or a sequence
\* holding its content.
Optional(S) == {<<>>} \cup {<<x>> : x \in S}

FrontMatter ==
    Markup(<<HTML4>>, None, <<<<>>>>,
           <<<<H1("Z Shell User's Guide"), H2("Author Name", <<>>)>>>>)

ChapterDoc(title) ==
    Markup(<<HTML4>>, None, <<<<>>>>,
           <<<<LI(<<TocLink("li")>>), H1(title)>>>>)

ChapterWithH2 ==
    Markup(<<HTML4>>, None, <<<<>>>>,
           <<<<H1("Chapter Three"),
               H2("Section", <<Anchor("l1", None, None, "p")>>)>>>>)

ChapterNoHead ==
    Markup(<<>>, None, <<>>, <<<<H1("Chapter Four")>>>>)

ChapterTocOutsideList ==
    Markup(<<HTML4>>, None, <<<<>>>>,
           <<<<A(None, None, TOC_FILENAME), H1("Chapter Five")>>>>)

ChapterBareH2 ==
    Markup(<<HTML4>>, None, <<<<>>>>,
           <<<<H1("Chapter Seven"), H2("Section", <<>>)>>>>)

ChapterName(prefix, nn) == prefix \o nn \o DOT_HTML

Reg(name, data) == [isreg |-> TRUE, name |-> name, data |-> data]
NonReg(name) == [isreg |-> FALSE, name |-> name, data |-> ChapterDoc("Directory")]

ReaderMembers ==
    {Reg(TOC_NAME, FrontMatter),
     Reg(ChapterName(ZSHGUIDE, <<"0", "1">>), ChapterDoc("Chapter One")),
     Reg(ChapterName(ZSHGUIDE, <<"0", "2">>), ChapterDoc("Chapter Two")),
     Reg(ChapterName(<<"a", "/">> \o ZSHGUIDE, <<"0", "1">>), ChapterDoc("Chapter Two")),
     Reg(ChapterName(ZSHGUIDE, <<"1", "0">>), ChapterWithH2),
     Reg(ChapterName(GUIDE, <<"0", "1">>), ChapterDoc("Chapter One"))}

Members ==
    ReaderMembers \cup
    {Reg(ChapterName(GUIDE, <<"0", "2">>), ChapterDoc("Chapter Two")),
     Reg(ChapterName(ZSHGUIDE, <<"0", "4">>), ChapterNoHead),
     Reg(ChapterName(ZSHGUIDE, <<"0", "5">>), ChapterTocOutsideList),
     NonReg(ChapterName(ZSHGUIDE, <<"0", "6">>)),
     Reg(ChapterName(ZSHGUIDE, <<"0", "7">>), ChapterBareH2)}

\* The value of a variable that a specification does not use.
Idle == [html |-> None, version |-> None, filename |-> <<>>, chapters |-> <<>>,
         archive |-> <<>>, archive2 |-> <<>>, epub_contents |-> <<>>,
         epub |-> <<>>]

(***************************************************************************)
(* Spec: one run of main on the downloaded archive.                        *)
(***************************************************************************)
Init ==
    /\ pc = "start"
    /\ archive \in SeqsUpTo(Members, MaxMembers)
    /\ result = NotRun
    /\ result2 = NotRun
    /\ epub_contents = <<>>
    /\ epub = <<>>
    /\ html = Idle.html
    /\ version = Idle.version
    /\ filename = Idle.filename
    /\ nav_chapters = Idle.chapters
    /\ archive2 = Idle.archive2

Next == ReadArchive \/ BuildContents \/ OpenEpub \/ WriteEntry \/ Finish

Spec == Init /\ [][Next]_vars


(***************************************************************************)
(* SpecReader: book_from_tar_archive on an archive and on the same members *)
(* in another order.                                                       *)
(***************************************************************************)
Reordered(tar) ==
    {[i \in 1..Len(tar) |-> tar[f[i]]] : f \in Permutations(1..Len(tar))}

InitReader ==
    /\ pc = "read0"
    /\ archive \in SeqsUpTo(ReaderMembers, MaxMembers)
    /\ archive2 \in Reordered(archive)
    /\ result = NotRun
    /\ result2 = NotRun
    /\ html = Idle.html
    /\ version = Idle.version
    /\ filename = Idle.filename
    /\ nav_chapters = Idle.chapters
    /\ epub_contents = Idle.epub_contents
    /\ epub = Idle.epub

ReadFirst ==
    /\ pc = "read0"
    /\ result' = book_from_tar_archive(archive)
    /\ pc' = "read1"
    /\ UNCHANGED <<inputs, result2, epub_contents, epub>>

ReadSecond ==
    /\ pc = "read1"
    /\ result2' = book_from_tar_archive(archive2)
    /\ pc' = "read2"
    /\ UNCHANGED <<inputs, result, epub_contents, epub>>

NextReader == ReadFirst \/ ReadSecond

SpecReader == InitReader /\ [][NextReader]_vars

(***************************************************************************)
(* SpecNorm: html2xhtml on a text, then on its own output.                 *)
(***************************************************************************)
Versions == {"1.0", "1.1", "2.0"}

NormMetas ==
    {[charset |-> "iso-8859-1", http_equiv |-> None],
     [charset |-> None, http_equiv |-> "Content-Type"],
     [charset |-> None, http_equiv |-> "refresh"]}

NormBlocks ==
    {P("space"), P("tag"),
     A("n1", None, None), A("n1", "i1", None), A(None, "i1", None),
     H2("Section", <<Anchor("n2", None, None, "p")>>)}

InitNorm ==
    /\ pc = "html"
    /\ \E d \in SeqsUpTo({HTML4}, MaxDoctypes) :
       \E x \in {None, "urn:other"} :
       \E head \in Optional(SeqsUpTo(NormMetas, MaxMetas)) :
       \E body \in Optional(SeqsUpTo(NormBlocks, MaxBlocks)) :
          html = Markup(d, x, head, body)
    /\ version \in Versions
    /\ result = NotRun
    /\ result2 = NotRun
    /\ archive = Idle.archive
    /\ archive2 = Idle.archive2
    /\ filename = Idle.filename
    /\ nav_chapters = Idle.chapters
    /\ epub_contents = Idle.epub_contents
    /\ epub = Idle.epub

Normalize ==
    /\ pc = "html"
    /\ result' = html2xhtml(html, version)
    /\ pc' = "once"
    /\ UNCHANGED <<inputs, result2, epub_contents, epub>>

NormalizeAgain ==
    /\ pc = "once"
    /\ result.ok
    /\ result2' = html2xhtml(result.val, version)
    /\ pc' = "twice"
    /\ UNCHANGED <<inputs, result, epub_contents, epub>>

NextNorm == Normalize \/ NormalizeAgain

SpecNorm == InitNorm /\ [][NextNorm]_vars

(***************************************************************************)
(* SpecChapter: chapter_from_html on a file name and a text.               *)
(***************************************************************************)
NameChars == {"g", "/", "0", "7", "4", "2"}

NameEndings == {DOT_HTML, <<>>, <<".", "h", "t", "m">>, DOT_HTML \o <<"\n">>}

ChapterTexts ==
    {Markup(<<>>, XHTML_NS, <<<<CanonicalMeta>>>>, <<<<H1("Chapter One")>>>>),
     Markup(<<>>, XHTML_NS, <<<<CanonicalMeta>>>>,
            <<<<H1("Guide"), H1("Chapter Two")>>>>),
     Markup(<<>>, XHTML_NS, <<<<CanonicalMeta>>>>, <<<<P("text")>>>>),
     Markup(<<>>, None, <<>>, <<>>)}

InitChapter ==
    /\ pc = "name"
    /\ \E stem \in SeqsUpTo(NameChars, MaxName) : \E e \in NameEndings :
          filename = stem \o e
    /\ html \in ChapterTexts
    /\ result = NotRun
    /\ result2 = NotRun
    /\ archive = Idle.archive
    /\ archive2 = Idle.archive2
    /\ version = Idle.version
    /\ nav_chapters = Idle.chapters
    /\ epub_contents = Idle.epub_contents
    /\ epub = Idle.epub

ExtractChapter ==
    /\ pc = "name"
    /\ result' = chapter_from_html(filename, html)
    /\ pc' = "chapter"
    /\ UNCHANGED <<inputs, result2, epub_contents, epub>>

NextChapter == ExtractChapter

SpecChapter == InitChapter /\ [][NextChapter]_vars

(***************************************************************************)
(* SpecToc: remove_html_toc_references on a text.                          *)
(***************************************************************************)
TocBlocks ==
    {LI(<<TocLink("li")>>),
     LI(<<TocLink("b")>>),
     LI(<<TocLink("li"), TocLink("li")>>),
     LI(<<OtherLink("li"), TocLink("li")>>),
     LI(<<OtherLink("li")>>),
     A(None, None, TOC_FILENAME),
     P("text")}

InitToc ==
    /\ pc = "links"
    /\ \E body \in SeqsUpTo(TocBlocks, MaxBlocks) :
          html = Markup(<<DoctypeFor("1.1")>>, XHTML_NS, <<<<CanonicalMeta>>>>,
                        <<body>>)
    /\ result = NotRun
    /\ result2 = NotRun
    /\ archive = Idle.archive
    /\ archive2 = Idle.archive2
    /\ version = Idle.version
    /\ filename = Idle.filename
    /\ nav_chapters = Idle.chapters
    /\ epub_contents = Idle.epub_contents
    /\ epub = Idle.epub

RemoveTocReferences ==
    /\ pc = "links"
    /\ result' = remove_html_toc_references(html, TOC_FILENAME)
    /\ pc' = "removed"
    /\ UNCHANGED <<inputs, result2, epub_contents, epub>>

NextToc == RemoveTocReferences

SpecToc == InitToc /\ [][NextToc]_vars

(***************************************************************************)
(* SpecNav: create_ncx_nav_map on a chapter sequence.                      *)
(***************************************************************************)
NavTitles ==
    {H2("Section A", <<Anchor(None, "l1", None, "p")>>),
     H2("Section B", <<Anchor(None, "l2", None, "p")>>),
     H2("Section C", <<>>)}

NavChapter(i, titles) ==
    [title |-> "Chapter", number |-> i,
     outname |-> ChapterName(ZSHGUIDE, <<"0", "1">>),
     xhtml |-> Markup(<<DoctypeFor("1.1")>>, XHTML_NS, <<<<CanonicalMeta>>>>,
                      <<<<H1("Chapter")>> \o titles>>)]

InitNav ==
    /\ pc = "chapters"
    /\ \E ts \in SeqsUpTo(SeqsUpTo(NavTitles, MaxBlocks), MaxChapters) :
          nav_chapters = [i \in 1..Len(ts) |-> NavChapter(i, ts[i])]
    /\ result = NotRun
    /\ result2 = NotRun
    /\ archive = Idle.archive
    /\ archive2 = Idle.archive2
    /\ html = Idle.html
    /\ version = Idle.version
    /\ filename = Idle.filename
    /\ epub_contents = Idle.epub_contents
    /\ epub = Idle.epub

BuildNavMap ==
    /\ pc = "chapters"
    /\ result' = create_ncx_nav_map(nav_chapters)
    /\ pc' = "navMap"
    /\ UNCHANGED <<inputs, result2, epub_contents, epub>>

NextNav == BuildNavMap

SpecNav == InitNav /\ [][NextNav]_vars

(***************************************************************************)
(* Properties of main (Spec)                                               *)
(***************************************************************************)
Started == pc # "start"
BookRead == pc \in {"book", "contents", "writing", "done"}
ContentsBuilt == pc \in {"contents", "writing", "done"}

\* The name ends in zshguide, two digits and .html (a newline may follow).
NamedZshguideNN(name) ==
    LET n == IF name # <<>> /\ name[Len(name)] = "\n"
             THEN SubSeq(name, 1, Len(name) - 1) ELSE name
        k == Len(n) - Len(ZSHGUIDE) - 2 - Len(DOT_HTML)
    IN /\ k >= 0
       /\ SubSeq(n, k + 1, k + Len(ZSHGUIDE)) = ZSHGUIDE
       /\ n[k + Len(ZSHGUIDE) + 1] \in Digits
       /\ n[k + Len(ZSHGUIDE) + 2] \in Digits
       /\ SubSeq(n, Len(n) - Len(DOT_HTML) + 1, Len(n)) = DOT_HTML

\* The name follows <prefix><NN>.html for some prefix.
NamedPrefixNN(name) ==
    /\ Len(name) >= 2 + Len(DOT_HTML)
    /\ SubSeq(name, Len(name) - Len(DOT_HTML) + 1, Len(name)) = DOT_HTML
    /\ name[Len(name) - Len(DOT_HTML)] \in Digits
    /\ name[Len(name) - Len(DOT_HTML) - 1] \in Digits

IsFrontMatter(m) == m.isreg /\ basename(m.name) = TOC_NAME

NoFrontMatter(tar) == \A i \in 1..Len(tar) : ~IsFrontMatter(tar[i])

\* C1: in every output archive the first entry is mimetype with content
\* application/epub+zip and is the only entry stored without compression;
\* every other entry is written after it, deflated; a finished archive holds
\* the mimetype file, one entry per chapter, toc.ncx, content.opf and
\* container.xml, for any number of chapters.
C1_MimetypeFirstStored ==
    /\ \A i \in 1..Len(epub) :
          IF i = 1
          THEN /\ epub[i].filename = MIMETYPE
               /\ epub[i].contents.kind = "text"
               /\ epub[i].contents.text = "application/epub+zip"
               /\ epub[i].compress_type = "ZIP_STORED"
          ELSE /\ epub[i].filename # MIMETYPE
               /\ epub[i].compress_type = "ZIP_DEFLATED"
    /\ pc = "done" =>
          LET n == Len(result.val.chapters) IN
          /\ Len(epub) = n + 4
          /\ \A i \in 1..n :
                epub[i + 1].filename = OEBPS \o result.val.chapters[i].outname
          /\ epub[n + 2].filename = OEBPS \o TOC_NCX
          /\ epub[n + 3].filename = OEBPS \o CONTENT_OPF
          /\ epub[n + 4].filename = CONTAINER_XML

C1_Witness ==
    /\ pc = "done"
    /\ Len(result.val.chapters) = 2
    /\ Len(epub) = 6

\* A chapter member (a regular file the reader takes for a chapter) whose
\* text holds a table-of-contents link outside a list item.
HasTocLinkOutsideList(tar) ==
    \E i \in 1..Len(tar) :
        /\ tar[i].isreg
        /\ ~IsFrontMatter(tar[i])
        /\ NamedZshguideNN(tar[i].name)
        /\ \E b \in Range(tar[i].data.body) : \E a \in Range(b.as) :
              a.href = TOC_FILENAME /\ b.k # "li"

\* C3: in every run in which reading the archive or building the documents
\* fails (no front matter, a table-of-contents link outside a list item, any
\* exception of the reader or of the builders), the run is in the error
\* state from then on and nothing has been written to the output archive.
C3_NoOutputAfterError ==
    /\ pc = "error" => epub = <<>> /\ epub_contents = <<>>
    /\ (Started /\ (NoFrontMatter(archive) \/ HasTocLinkOutsideList(archive)))
          => pc = "error"
    /\ (Started /\ ~result.ok) => pc = "error"
    /\ (ContentsBuilt \/ epub # <<>>) => result.ok /\ result2.ok

C3_Witness ==
    /\ pc = "error"
    /\ NoFrontMatter(archive)
    /\ \E i \in 1..Len(archive) : NamedZshguideNN(archive[i].name)
    /\ result.err = "ValueError"

\* The archive of the scenario: the front-matter file plus chapter files
\* named <prefix><NN>.html, each with one heading-1 and no heading-2.
IsScenarioChapter(m) ==
    /\ m.isreg
    /\ NamedPrefixNN(m.name)
    /\ Len(Headings(m.data.body, "h1")) = 1
    /\ Headings(m.data.body, "h2") = <<>>

ScenarioArchive(tar) ==
    /\ \E i \in 1..Len(tar) : IsFrontMatter(tar[i])
    /\ \E i \in 1..Len(tar) : ~IsFrontMatter(tar[i])
    /\ \A i \in 1..Len(tar) : IsFrontMatter(tar[i]) \/ IsScenarioChapter(tar[i])

Ascending(chapters) ==
    \A i \in 1..Len(chapters) - 1 : chapters[i].number <= chapters[i + 1].number

\* One top-level navPoint per chapter, in chapter order, playOrder 1, 2, ...
NavMapFollows(nav_map, chapters) ==
    /\ Len(nav_map) = Len(chapters)
    /\ \A i \in 1..Len(nav_map) :
          /\ nav_map[i].playOrder = i
          /\ nav_map[i].src.file = chapters[i].outname
          /\ nav_map[i].children = <<>>

\* C8 as stated: every chapter file named <prefix><NN>.html of the scenario
\* archive becomes a chapter, and toc.ncx has one navPoint per chapter file
\* with playOrder 1, 2, ... in chapter-number order.
C8_AnyPrefixBecomesChapter ==
    (pc = "done" /\ ScenarioArchive(archive)) =>
        /\ Len(result.val.chapters)
              = Cardinality({i \in 1..Len(archive) : IsScenarioChapter(archive[i])})
        /\ Ascending(result.val.chapters)
        /\ NavMapFollows(result2.val.contents.navMap, result.val.chapters)

\* C8 amended: the members that become chapters of the Book are exactly the
\* regular files whose name ends in zshguide<NN>.html (guide01.html and
\* guide02.html are skipped); the chapters are in ascending number order, and
\* when no chapter has a heading-2 toc.ncx has one navPoint per chapter with
\* playOrder 1, 2, ... in that order.
C8_OnlyZshguideNamesBecomeChapters ==
    /\ BookRead =>
        LET chosen == {i \in 1..Len(archive) :
                          /\ archive[i].isreg
                          /\ ~IsFrontMatter(archive[i])
                          /\ NamedZshguideNN(archive[i].name)}
        IN /\ Len(result.val.chapters) = Cardinality(chosen)
           /\ \A i \in chosen : \E c \in Range(result.val.chapters) :
                 c.outname = basename(archive[i].name)
           /\ \A c \in Range(result.val.chapters) : \E i \in chosen :
                 c.outname = basename(archive[i].name)
           /\ Ascending(result.val.chapters)
    /\ (ContentsBuilt /\ \A c \in Range(result.val.chapters) :
                            Headings(c.xhtml.body, "h2") = <<>>)
          => NavMapFollows(result2.val.contents.navMap, result.val.chapters)

C8_Witness ==
    /\ pc = "done"
    /\ ScenarioArchive(archive)
    /\ \E i \in 1..Len(archive) :
          archive[i].name = ChapterName(GUIDE, <<"0", "1">>)
    /\ Len(result.val.chapters) = 1
    /\ result.val.chapters[1].outname = ChapterName(ZSHGUIDE, <<"0", "2">>)
    /\ Len(result2.val.contents.navMap) = 1
    /\ result2.val.contents.navMap[1].playOrder = 1

(***************************************************************************)
(* Properties of book_from_tar_archive (SpecReader)                        *)
(***************************************************************************)
DistinctNumbers(cs) ==
    \A i, j \in 1..Len(cs) : i # j => cs[i].number # cs[j].number

\* C2: two archives holding the same members in different orders, with
\* pairwise distinct chapter numbers, give the same chapter sequence, and
\* it is ascending by chapter number.
C2_OrderIndependent ==
    (pc = "read2" /\ result.ok /\ result2.ok
        /\ DistinctNumbers(result.val.chapters)) =>
        /\ result.val.chapters = result2.val.chapters
        /\ \A i \in 1..Len(result.val.chapters) - 1 :
              result.val.chapters[i].number < result.val.chapters[i + 1].number

C2_Witness ==
    /\ pc = "read2"
    /\ result.ok /\ result2.ok
    /\ archive # archive2
    /\ Len(result.val.chapters) = 2
    /\ DistinctNumbers(result.val.chapters)
    /\ archive[1].name = ChapterName(ZSHGUIDE, <<"1", "0">>)
    /\ archive[2].name = ChapterName(ZSHGUIDE, <<"0", "2">>)
    /\ result.val.chapters[1].number = 2
    /\ result.val.chapters[2].number = 10

(***************************************************************************)
(* Properties of html2xhtml (SpecNorm)                                     *)
(***************************************************************************)
DeclaresCharset(meta) ==
    meta.charset # None \/ meta.http_equiv = "Content-Type"

CharsetMetas(text) == SelectSeq(text.metas, DeclaresCharset)

Normalized(text) ==
    /\ Len(text.doctypes) = 1
    /\ text.root /\ text.xmlns = XHTML_NS
    /\ text.hasHead /\ Len(CharsetMetas(text)) = 1

\* C4: for any input HTML (also one with no head element, no doctype,
\* several doctypes or several charset metas) html2xhtml with a supported
\* version returns a document with exactly one doctype, the XHTML namespace
\* on the root and exactly one charset meta in the head.
C4_AlwaysNormalized ==
    (pc \in {"once", "twice"} /\ version \in DOCTYPES) =>
        result.ok /\ Normalized(result.val)

\* C5: html2xhtml applied to its own output returns a document that still
\* has exactly one doctype (that of the version) and exactly one charset
\* meta in the head.
C5_SecondPassDoesNotAccumulate ==
    pc = "twice" =>
        /\ result2.ok
        /\ result2.val.doctypes = <<DoctypeFor(version)>>
        /\ result2.val.hasHead
        /\ CharsetMetas(result2.val) = <<CanonicalMeta>>

C5_Witness ==
    /\ pc = "twice"
    /\ Len(html.doctypes) = 2
    /\ Len(CharsetMetas(html)) = 2
    /\ Len(result.val.doctypes) = 1
    /\ Len(CharsetMetas(result.val)) = 1
    /\ result2.ok

\* The anchors of a body, in document order.
RECURSIVE AnchorsFrom(_, _)
AnchorsFrom(body, i) ==
    IF i > Len(body) THEN <<>> ELSE body[i].as \o AnchorsFrom(body, i + 1)

\* C6: for version "1.1" every anchor with a name attribute in the input
\* has, in the output, an id equal to that name and no name attribute (also
\* when it had another id); for version "1.0" every anchor's name and id are
\* unchanged.
C6_NameBecomesId ==
    (pc \in {"once", "twice"} /\ result.ok) =>
        LET before == AnchorsFrom(html.body, 1)
            after == AnchorsFrom(result.val.body, 1)
        IN /\ Len(after) = Len(before)
           /\ \A i \in 1..Len(before) :
                 IF version = "1.1" /\ before[i].name # None
                 THEN after[i].id = before[i].name /\ after[i].name = None
                 ELSE after[i].id = before[i].id /\ after[i].name = before[i].name

C6_Witness ==
    /\ pc = "once"
    /\ result.ok
    /\ version = "1.1"
    /\ \E i \in 1..Len(AnchorsFrom(html.body, 1)) :
          /\ AnchorsFrom(html.body, 1)[i].name = "n1"
          /\ AnchorsFrom(html.body, 1)[i].id = "i1"
          /\ AnchorsFrom(result.val.body, 1)[i].id = "n1"

(***************************************************************************)
(* Properties of chapter_from_html (SpecChapter)                           *)
(***************************************************************************)
EndsWith(s, t) ==
    Len(s) >= Len(t) /\ SubSeq(s, Len(s) - Len(t) + 1, Len(s)) = t

\* The longest run of digits that ends s.
TrailingDigits(s) ==
    LET ks == {k \in 0..Len(s) : \A i \in (Len(s) - k + 1)..Len(s) : s[i] \in Digits}
        k == CHOOSE k \in ks : \A l \in ks : l <= k
    IN SubSeq(s, Len(s) - k + 1, Len(s))

\* The value of a digit run, read from the left.
RECURSIVE DecimalFrom(_, _, _)
DecimalFrom(s, i, acc) ==
    IF i > Len(s) THEN acc ELSE DecimalFrom(s, i + 1, acc * 10 + DigitValue(s[i]))

\* The digit run immediately before ".html" at the end of the base name.
StrictRun(name) ==
    IF EndsWith(basename(name), DOT_HTML)
    THEN TrailingDigits(SubSeq(basename(name), 1,
                               Len(basename(name)) - Len(DOT_HTML)))
    ELSE <<>>

\* The same, with one newline allowed after ".html".
TolerantRun(name) ==
    LET b == basename(name) IN
    IF EndsWith(b, DOT_HTML \o <<"\n">>)
    THEN TrailingDigits(SubSeq(b, 1, Len(b) - Len(DOT_HTML) - 1))
    ELSE StrictRun(name)

HasHeading1(text) == text.root /\ text.hasBody /\ Headings(text.body, "h1") # <<>>

\* C7 as stated: a Chapter's number is the value of the digit run before
\* ".html" at the end of the base name, and every file name without such a
\* run fails with the malformed-filename error, whatever the content is
\* (the end of the name read as the pattern reads it).
C7_MalformedNameAlwaysValueError ==
    pc = "chapter" =>
        /\ result.ok => result.val.number = DecimalFrom(TolerantRun(filename), 1, 0)
        /\ TolerantRun(filename) = <<>> => ~result.ok /\ result.err = "ValueError"

\* C7 amended: a Chapter's number is the value of the digit run before
\* ".html" at the end of the base name (one newline may follow ".html");
\* for a file name without such a run no Chapter is returned: the call fails
\* with the malformed-filename error when the content has a heading-1 in its
\* body, and with the error of the title lookup, which comes first, when it
\* has none.
C7_NumberFromNameOrError ==
    pc = "chapter" =>
        /\ result.ok =>
              /\ TolerantRun(filename) # <<>>
              /\ result.val.number = DecimalFrom(TolerantRun(filename), 1, 0)
              /\ result.val.outname = basename(filename)
        /\ TolerantRun(filename) = <<>> =>
              /\ ~result.ok
              /\ result.err = IF HasHeading1(html) THEN "ValueError"
                              ELSE IF html.root /\ html.hasBody THEN "IndexError"
                              ELSE "AttributeError"
        /\ (TolerantRun(filename) # <<>> /\ HasHeading1(html)) => result.ok

C7_Witness ==
    /\ pc = "chapter"
    /\ filename = <<"g", "/", "g">> \o DOT_HTML
    /\ ~HasHeading1(html) /\ html.hasBody
    /\ ~result.ok
    /\ result.err = "IndexError"

(***************************************************************************)
(* Properties of remove_html_toc_references (SpecToc)                      *)
(***************************************************************************)
HoldsTocLink(block) == \E a \in Range(block.as) : a.href = TOC_FILENAME

\* C10: for every anchor whose href is the table-of-contents file name: if
\* it has an enclosing list item (directly or through intermediate
\* elements) the whole list item is removed and no error is raised, also
\* when several such anchors sit in one list item; if it has none, the
\* structural-inconsistency error is raised.
C10_EnclosingListItemRemoved ==
    pc = "removed" =>
        IF \E b \in Range(html.body) : b.k # "li" /\ HoldsTocLink(b)
        THEN ~result.ok /\ result.err = "ValueError"
        ELSE /\ result.ok
             /\ result.val.body = SelectSeq(html.body, LAMBDA b : ~HoldsTocLink(b))

(***************************************************************************)
(* Properties of create_ncx_nav_map (SpecNav)                              *)
(***************************************************************************)
\* The playOrder values of a navigation map in document order.
RECURSIVE PlayOrdersFrom(_, _)
PlayOrdersFrom(nav_map, i) ==
    IF i > Len(nav_map) THEN <<>>
    ELSE <<nav_map[i].playOrder>>
         \o [j \in 1..Len(nav_map[i].children) |-> nav_map[i].children[j].playOrder]
         \o PlayOrdersFrom(nav_map, i + 1)

RECURSIVE CountTitlesFrom(_, _)
CountTitlesFrom(cs, i) ==
    IF i > Len(cs) THEN 0
    ELSE Len(Headings(cs[i].xhtml.body, "h2")) + CountTitlesFrom(cs, i + 1)

\* C9: the navigation map has one top-level navPoint per chapter and one
\* nested navPoint per heading-2 under its own chapter's navPoint, and the
\* playOrder values in document order are 1, 2, ..., K, K being the number
\* of chapters plus the number of heading-2 elements.
C9_PlayOrderSequential ==
    (pc = "navMap" /\ result.ok) =>
        LET nav_map == result.val
            K == Len(nav_chapters) + CountTitlesFrom(nav_chapters, 1)
        IN /\ Len(nav_map) = Len(nav_chapters)
           /\ \A i \in 1..Len(nav_map) :
                 LET titles == Headings(nav_chapters[i].xhtml.body, "h2") IN
                 /\ nav_map[i].label = nav_chapters[i].title
                 /\ Len(nav_map[i].children) = Len(titles)
                 /\ \A j \in 1..Len(titles) :
                       /\ nav_map[i].children[j].label = titles[j].content
                       /\ nav_map[i].children[j].src.fragment = titles[j].as[1].id
           /\ PlayOrdersFrom(nav_map, 1) = [k \in 1..K |-> k]

C9_Witness ==
    /\ pc = "navMap"
    /\ result.ok
    /\ Len(nav_chapters) = 2
    /\ Len(result.val[1].children) = 2
    /\ Len(result.val[2].children) = 1
    /\ result.val[2].playOrder = 4
    /\ result.val[2].children[1].playOrder = 5

=============================================================================
